---- MODULE Spec2Model ----
(***************************************************************************)
(* Model of monte_carlo/analysis.py: simulate_yield_distribution, the      *)
(* Monte Carlo loop over the module-global generator of `random`, and      *)
(* summarize_and_plot_yields, the numpy statistics, the three prints and   *)
(* the matplotlib figure.                                                  *)
(*                                                                         *)
(* Python floats are IEEE 754 doubles: every operation on them is computed *)
(* exactly and then rounded to the nearest double, ties to the even        *)
(* mantissa.  The integers of TLC have 32 bits, so the 53-bit mantissas    *)
(* are kept as sequences of 14-bit digits.  random.random() returns        *)
(* k / 2^DrawBits for k in 0 .. 2^DrawBits - 1 (the real generator returns *)
(* k / 2^53).  A number handed to simulate_yield_distribution is a Python  *)
(* int or a Python float; an operation on two ints is exact, any other     *)
(* converts the int operand to a float and rounds its result.              *)
(***************************************************************************)
EXTENDS Integers, Sequences, FiniteSets, TLC

\* ------------------------------------------------------------------ bounds
DrawBits == 1
MaxPolicies == 2
MaxSims == 2
MaxLen == 5
MaxRuns == 2
MaxOtherDraws == 1

\* --------------------------------------------- natural numbers of any size
\* a natural number is the sequence of its digits in base 2^14, lowest first,
\* with no leading zero digit; <<>> is 0
LimbBits == 14

LimbBase == 2 ^ LimbBits

Limb(a, i) == IF i <= Len(a) THEN a[i] ELSE 0

RECURSIVE BNorm(_)
BNorm(a) ==
    IF a # <<>> /\ a[Len(a)] = 0 THEN BNorm(SubSeq(a, 1, Len(a) - 1)) ELSE a

RECURSIVE BFromInt(_)
BFromInt(n) ==
    IF n = 0 THEN <<>> ELSE <<n % LimbBase>> \o BFromInt(n \div LimbBase)

RECURSIVE BToInt(_)
BToInt(a) == IF a = <<>> THEN 0 ELSE a[1] + LimbBase * BToInt(Tail(a))

RECURSIVE BCmpFrom(_, _, _)
BCmpFrom(a, b, i) ==
    IF i = 0 THEN 0
    ELSE IF a[i] < b[i] THEN -1
    ELSE IF a[i] > b[i] THEN 1
    ELSE BCmpFrom(a, b, i - 1)

\* -1, 0 or 1 as a < b, a = b, a > b
BCmp(a, b) ==
    IF Len(a) < Len(b) THEN -1
    ELSE IF Len(a) > Len(b) THEN 1
    ELSE BCmpFrom(a, b, Len(a))

RECURSIVE BAddFrom(_, _, _, _)
BAddFrom(a, b, i, c) ==
    IF i > Len(a) /\ i > Len(b)
    THEN IF c = 0 THEN <<>> ELSE <<c>>
    ELSE LET t == Limb(a, i) + Limb(b, i) + c
         IN  <<t % LimbBase>> \o BAddFrom(a, b, i + 1, t \div LimbBase)

BAdd(a, b) == BAddFrom(a, b, 1, 0)

RECURSIVE BSubFrom(_, _, _, _)
BSubFrom(a, b, i, c) ==
    IF i > Len(a) THEN <<>>
    ELSE LET t == a[i] - Limb(b, i) - c
         IN  <<t % LimbBase>> \o BSubFrom(a, b, i + 1, IF t < 0 THEN 1 ELSE 0)

\* a - b for a >= b
BSub(a, b) == BNorm(BSubFrom(a, b, 1, 0))

RECURSIVE BMulSmallFrom(_, _, _, _)
BMulSmallFrom(a, k, i, c) ==
    IF i > Len(a)
    THEN IF c = 0 THEN <<>> ELSE BFromInt(c)
    ELSE LET t == a[i] * k + c
         IN  <<t % LimbBase>> \o BMulSmallFrom(a, k, i + 1, t \div LimbBase)

\* a * k for 0 <= k <= 2^16
BMulSmall(a, k) == IF k = 0 THEN <<>> ELSE BMulSmallFrom(a, k, 1, 0)

RECURSIVE BMulFrom(_, _, _)
BMulFrom(a, b, j) ==
    IF j > Len(b) THEN <<>>
    ELSE BAdd(BMulSmall(a, b[j]), <<0>> \o BMulFrom(a, b, j + 1))

BMul(a, b) == BNorm(BMulFrom(a, b, 1))

RECURSIVE IntBitLen(_)
IntBitLen(n) == IF n = 0 THEN 0 ELSE 1 + IntBitLen(n \div 2)

BBitLen(a) ==
    IF a = <<>> THEN 0 ELSE LimbBits * (Len(a) - 1) + IntBitLen(a[Len(a)])

\* bit i of a, the lowest bit being bit 0
BBit(a, i) == (Limb(a, (i \div LimbBits) + 1) \div (2 ^ (i % LimbBits))) % 2

\* a * 2^k
BShl(a, k) ==
    IF a = <<>> THEN <<>>
    ELSE [i \in 1 .. (k \div LimbBits) |-> 0] \o BMulSmall(a, 2 ^ (k % LimbBits))

RECURSIVE BDivSmallFrom(_, _, _, _)
BDivSmallFrom(a, d, i, r) ==
    IF i = 0 THEN <<>>
    ELSE LET t == r * LimbBase + a[i]
         IN  BDivSmallFrom(a, d, i - 1, t % d) \o <<t \div d>>

\* floor(a / 2^k)
BShr(a, k) ==
    LET drop == k \div LimbBits
        rest == IF drop >= Len(a) THEN <<>> ELSE SubSeq(a, drop + 1, Len(a))
    IN  BNorm(BDivSmallFrom(rest, 2 ^ (k % LimbBits), Len(rest), 0))

RECURSIVE IntTrailingZeros(_)
IntTrailingZeros(n) == IF n % 2 = 1 THEN 0 ELSE 1 + IntTrailingZeros(n \div 2)

RECURSIVE BTrailingZeros(_)
BTrailingZeros(a) ==
    IF a[1] = 0 THEN LimbBits + BTrailingZeros(Tail(a))
    ELSE IntTrailingZeros(a[1])

RECURSIVE BDigitFrom(_, _, _, _)
BDigitFrom(cur, b, d, j) ==
    IF j < 0 THEN d
    ELSE IF BCmp(BMulSmall(b, d + 2 ^ j), cur) <= 0
    THEN BDigitFrom(cur, b, d + 2 ^ j, j - 1)
    ELSE BDigitFrom(cur, b, d, j - 1)

\* floor(cur / b) for cur < b * 2^14: the largest digit d with b * d <= cur
BDigit(cur, b) == BDigitFrom(cur, b, 0, LimbBits - 1)

RECURSIVE BDivModFrom(_, _, _, _)
BDivModFrom(a, b, i, r) ==
    IF i = 0 THEN <<<<>>, r>>
    ELSE LET cur == BNorm(<<a[i]>> \o r)
             d == BDigit(cur, b)
             rest == BDivModFrom(a, b, i - 1, BSub(cur, BMulSmall(b, d)))
         IN  <<rest[1] \o <<d>>, rest[2]>>

\* <<floor(a / b), a mod b>> for b > 0, by long division in base 2^14; a
\* divisor of one digit needs no search for the digits of the quotient
BDivMod(a, b) ==
    IF Len(b) = 1
    THEN LET small == BNorm(BDivSmallFrom(a, b[1], Len(a), 0))
         IN  <<small, BSub(a, BMulSmall(small, b[1]))>>
    ELSE LET qr == BDivModFrom(a, b, Len(a), <<>>) IN <<BNorm(qr[1]), qr[2]>>

\* ----------------------------------------------------------- Python floats
\* a finite IEEE 754 double is <<s, m, e>>: the value (-1)^s * m * 2^e with m
\* an odd natural number of at most 53 bits, or m = 0 and e = 0; NaN is
\* <<2, <<>>, 0>>.  Exponents are not limited: no value of the model
\* overflows or is subnormal.
MantissaBits == 53

NaN == <<2, <<>>, 0>>

IsNaN(x) == x[1] = 2

\* (-1)^s * n * 2^e with trailing zero bits of n moved into the exponent
Canon(s, n, e) ==
    IF n = <<>> THEN <<s, <<>>, 0>>
    ELSE LET zeros == BTrailingZeros(n) IN <<s, BShr(n, zeros), e + zeros>>

\* the double nearest to (-1)^s * n * 2^e, ties to the even mantissa
RoundDyadic(s, n, e) ==
    LET bits == BBitLen(n)
    IN  IF bits <= MantissaBits THEN Canon(s, n, e)
        ELSE LET cut == bits - MantissaBits
                 kept == BShr(n, cut)
                 lost == BSub(n, BShl(kept, cut))
                 half == BCmp(lost, BShl(<<1>>, cut - 1))
                 roundUp == half > 0 \/ (half = 0 /\ BBit(kept, 0) = 1)
             IN  Canon(s, IF roundUp THEN BAdd(kept, <<1>>) ELSE kept, e + cut)

\* float(n) for an int n
FromInt(n) == RoundDyadic(IF n < 0 THEN 1 ELSE 0, BFromInt(IF n < 0 THEN -n ELSE n), 0)

FNeg(x) == IF IsNaN(x) THEN NaN ELSE <<1 - x[1], x[2], x[3]>>

\* -1, 0 or 1 as x < y, x = y, x > y, for finite x and y
FCmp(x, y) ==
    LET ce == IF x[3] < y[3] THEN x[3] ELSE y[3]
        ca == BShl(x[2], x[3] - ce)
        cb == BShl(y[2], y[3] - ce)
        cc == BCmp(ca, cb)
    IN  IF ca = <<>> /\ cb = <<>> THEN 0
        ELSE IF x[1] # y[1] /\ x[1] = 1 THEN -1
        ELSE IF x[1] # y[1] THEN 1
        ELSE IF x[1] = 0 THEN cc ELSE -cc

\* comparisons with NaN are false
FLt(x, y) == ~IsNaN(x) /\ ~IsNaN(y) /\ FCmp(x, y) < 0

FLe(x, y) == ~IsNaN(x) /\ ~IsNaN(y) /\ FCmp(x, y) <= 0

FEq(x, y) == ~IsNaN(x) /\ ~IsNaN(y) /\ FCmp(x, y) = 0

\* x + y
FAdd(x, y) ==
    IF IsNaN(x) \/ IsNaN(y) THEN NaN
    ELSE LET ae == IF x[3] < y[3] THEN x[3] ELSE y[3]
             aa == BShl(x[2], x[3] - ae)
             ab == BShl(y[2], y[3] - ae)
             ac == BCmp(aa, ab)
         IN  IF x[1] = y[1] THEN RoundDyadic(x[1], BAdd(aa, ab), ae)
             ELSE IF ac = 0 THEN <<0, <<>>, 0>>
             ELSE IF ac > 0 THEN RoundDyadic(x[1], BSub(aa, ab), ae)
             ELSE RoundDyadic(y[1], BSub(ab, aa), ae)

\* x - y
FSub(x, y) == FAdd(x, FNeg(y))

\* x * y
FMul(x, y) ==
    IF IsNaN(x) \/ IsNaN(y) THEN NaN
    ELSE RoundDyadic((x[1] + y[1]) % 2, BMul(x[2], y[2]), x[3] + y[3])

\* x / y for y # 0: the quotient to 55 bits and more, the lowest bit set when
\* the division left a remainder, then rounded
FDiv(x, y) ==
    IF IsNaN(x) \/ IsNaN(y) THEN NaN
    ELSE IF x[2] = <<>> THEN <<(x[1] + y[1]) % 2, <<>>, 0>>
    ELSE LET gap == MantissaBits + 2 + BBitLen(y[2]) - BBitLen(x[2])
             sh == IF gap > 0 THEN gap ELSE 0
             dm == BDivMod(BShl(x[2], sh), y[2])
             quot == BAdd(BMulSmall(dm[1], 2), IF dm[2] = <<>> THEN <<>> ELSE <<1>>)
         IN  RoundDyadic((x[1] + y[1]) % 2, quot, x[3] - y[3] - sh - 1)

\* n / d for ints n and d # 0: Python's true division, correctly rounded
IntDiv(n, d) == FDiv(FromInt(n), FromInt(d))

\* math.floor(x) as an int, for a finite x
FFloor(x) ==
    IF x[3] >= 0 THEN (IF x[1] = 1 THEN -1 ELSE 1) * BToInt(BShl(x[2], x[3]))
    ELSE LET whole == BToInt(BShr(x[2], -x[3]))
         IN  IF x[1] = 1 THEN -(whole + 1) ELSE whole

\* f"{x:.2f}": the sign, and the hundredths nearest to |x|, ties to even
Fmt2(x) ==
    IF IsNaN(x) THEN [nan |-> TRUE, neg |-> FALSE, hundredths |-> 0]
    ELSE LET fn == BMulSmall(x[2], 100)
             fk == IF x[3] < 0 THEN -x[3] ELSE 0
             fq == IF fk = 0 THEN BShl(fn, x[3]) ELSE BShr(fn, fk)
             frem == IF fk = 0 THEN <<>> ELSE BSub(fn, BShl(fq, fk))
             fc == IF fk = 0 THEN -1 ELSE BCmp(frem, BShl(<<1>>, fk - 1))
             fup == fc > 0 \/ (fc = 0 /\ BBit(fq, 0) = 1)
         IN  [nan |-> FALSE, neg |-> x[1] = 1,
              hundredths |-> BToInt(IF fup THEN BAdd(fq, <<1>>) ELSE fq)]

\* ------------------------------------------------------------ the generator
\* values random.random() can return: k / 2^DrawBits, in [0, 1)
UnitDraws == {IntDiv(k, 2 ^ DrawBits) : k \in 0 .. (2 ^ DrawBits - 1)}

\* random.uniform(a, b) is a + (b - a) * random.random()
Uniform(a, b, u) == FAdd(a, FMul(FSub(b, a), u))

\* ---------------------------------------------------------- Python numbers
\* a number is an int n, or a float f; f of an int is the int converted
PyInt(n) == [isInt |-> TRUE, n |-> n, f |-> FromInt(n)]

PyFloat(x) == [isInt |-> FALSE, n |-> 0, f |-> x]

\* a * b: exact on two ints, a rounded float product otherwise
PyMul(a, b) ==
    IF a.isInt /\ b.isInt THEN PyInt(a.n * b.n) ELSE PyFloat(FMul(a.f, b.f))

\* a + b: exact on two ints, a rounded float sum otherwise
PyAdd(a, b) ==
    IF a.isInt /\ b.isInt THEN PyInt(a.n + b.n) ELSE PyFloat(FAdd(a.f, b.f))

\* a - b: exact on two ints, a rounded float difference otherwise
PySub(a, b) ==
    IF a.isInt /\ b.isInt THEN PyInt(a.n - b.n) ELSE PyFloat(FSub(a.f, b.f))

\* a / b for b # 0, always a float: the correctly rounded quotient
PyTrueDiv(a, b) ==
    IF a.isInt /\ b.isInt THEN IntDiv(a.n, b.n) ELSE FDiv(a.f, b.f)

\* a == 0
PyIsZero(a) == IF a.isInt THEN a.n = 0 ELSE FEq(a.f, FromInt(0))

\* a > 0
PyPositive(a) == IF a.isInt THEN a.n > 0 ELSE FLt(FromInt(0), a.f)

\* ------------------------------------------------ simulate_yield_distribution
\* the keyword defaults of simulate_yield_distribution; the literals 0.003 and
\* 0.017 are the doubles nearest to 3/1000 and 17/1000
DefaultConfig ==
    [num_policies |-> 1000, annual_premium |-> PyInt(3000),
     claim_amount |-> PyInt(150000), simulations |-> 10000,
     p_min |-> IntDiv(3, 1000), p_max |-> IntDiv(17, 1000)]

\* total_premiums = num_policies * annual_premium
TotalPremiums(c) == PyMul(PyInt(c.num_policies), c.annual_premium)

\* yields = []
FreshYieldsKept(old) == old

FreshYields(old) == <<>>

\* for _ in range(simulations)
MoreTrialsInclusive(t, c) == t <= c.simulations

MoreTrials(t, c) == t < c.simulations

\* for _ in range(num_policies)
MorePoliciesInclusive(i, c) == i <= c.num_policies

MorePolicies(i, c) == i < c.num_policies

\* if random.random() < p
IsFireOrEqual(u, q) == FLe(u, q)

IsFire(u, q) == FLt(u, q)

\* total_payout = fires * claim_amount, net_profit = total_premiums -
\* total_payout and yield_percentage = (net_profit / total_premiums) * 100 of
\* one trial; the caller has raised ZeroDivisionError when tp is 0
YieldPercentagePaidIn(tp, k, claim) ==
    FMul(PyTrueDiv(PyAdd(tp, PyMul(PyInt(k), claim)), tp), FromInt(100))

YieldPercentage(tp, k, claim) ==
    FMul(PyTrueDiv(PySub(tp, PyMul(PyInt(k), claim)), tp), FromInt(100))

\* --------------------------------------------------- summarize_and_plot_yields
RECURSIVE SumFrom(_, _, _)
SumFrom(s, i, acc) ==
    IF i > Len(s) THEN acc ELSE SumFrom(s, i + 1, FAdd(acc, s[i]))

\* np.add.reduce of a non-empty array of fewer than 8 elements: the elements
\* are added one by one from the first (longer arrays are summed in blocks)
SeqSum(s) == SumFrom(s, 2, s[1])

\* np.mean: NaN (with a RuntimeWarning) for an empty array
Mean(arr) ==
    IF Len(arr) = 0 THEN NaN ELSE FDiv(SeqSum(arr), FromInt(Len(arr)))

RECURSIVE Insert(_, _)
Insert(x, s) ==
    IF s = <<>> THEN <<x>>
    ELSE IF FLe(x, Head(s)) THEN <<x>> \o s
    ELSE <<Head(s)>> \o Insert(x, Tail(s))

RECURSIVE SortAsc(_)
SortAsc(s) == IF s = <<>> THEN <<>> ELSE Insert(Head(s), SortAsc(Tail(s)))

\* numpy's _lerp(a, b, t): a + (b - a) * t, replaced by b - (b - a) * (1 - t)
\* when t >= 0.5
Lerp(a, b, t) ==
    IF FLe(IntDiv(1, 2), t)
    THEN FSub(b, FMul(FSub(b, a), FSub(FromInt(1), t)))
    ELSE FAdd(a, FMul(FSub(b, a), t))

\* the virtual index of np.percentile: (n - 1) * (q / 100), in floats
VirtualIndex(n, q) == FMul(FromInt(n - 1), IntDiv(q, 100))

\* a "nearest sample" percentile, the one the linear method is not
PercentileNearest(arr, q) ==
    LET near == FFloor(FAdd(VirtualIndex(Len(arr), q), IntDiv(1, 2)))
    IN  SortAsc(arr)[near + 1]

\* np.percentile(arr, q), method "linear", for a non-empty array: the virtual
\* index, the indexes below and above it (both the last one when the virtual
\* index reaches n - 1), gamma, and the interpolation
Percentile(arr, q) ==
    LET size == Len(arr)
        v == VirtualIndex(size, q)
        above == FLe(FromInt(size - 1), v)
        prev == IF above THEN size - 1 ELSE FFloor(v)
        nxt == IF above THEN size - 1 ELSE FFloor(v) + 1
        gamma == FSub(v, FromInt(FFloor(v)))
        sorted == SortAsc(arr)
    IN  Lerp(sorted[prev + 1], sorted[nxt + 1], gamma)

\* the three print calls
Printed(m, lo, hi) ==
    << [label |-> "Mean Yield", value |-> Fmt2(m)],
       [label |-> "5th Percentile", value |-> Fmt2(lo)],
       [label |-> "95th Percentile", value |-> Fmt2(hi)] >>

\* implicit return at the end of summarize_and_plot_yields
ReturnStats(m, lo, hi) == [kind |-> "stats", mean |-> m, p5 |-> lo, p95 |-> hi]

ReturnValue(m, lo, hi) == [kind |-> "None", mean |-> NaN, p5 |-> NaN, p95 |-> NaN]

\* ---------------------------------------------------------------- the state
VARIABLES
    pc,             \* the statement about to run
    cfg,            \* the arguments of the current simulate_yield_distribution call
    total_premiums, \* local of simulate_yield_distribution
    yields,         \* the list built by the simulation, then main's `yields`
    trial,          \* iterations of the outer loop completed
    p,              \* this trial's fire probability
    policy,         \* policies drawn in this trial
    fires,          \* running count of the inner sum
    rng,            \* the module-global generator: [seed, pos]; seed 0 is OS entropy
    tape,           \* tape[s]: the values the stream of seed s has revealed so far
    error,          \* the exception that ended the program, "none" if none
    yields_np,      \* locals of summarize_and_plot_yields
    mean_yield,
    p5,
    p95,
    stdout,         \* the lines printed
    shown,          \* the figures displayed by plt.show()
    retval,         \* what summarize_and_plot_yields returned
    arg0,           \* history: the list as it was passed to summarize_and_plot_yields
    entry,          \* history: the generator state when simulate was entered
    lastDraw,       \* history: the value random.random() last returned in this trial
    fireLog,        \* history: the fire count of each completed trial
    runs,           \* history: the completed simulate calls
    others          \* history: draws made by other users of the generator

vars == <<pc, cfg, total_premiums, yields, trial, p, policy, fires, rng, tape,
          error, yields_np, mean_yield, p5, p95, stdout, shown, retval, arg0,
          entry, lastDraw, fireLog, runs, others>>

simLocals == <<total_premiums, yields, trial, p, policy, fires>>
sumLocals == <<yields_np, mean_yield, p5, p95, stdout, shown, retval, arg0>>
history == <<entry, lastDraw, fireLog, runs, others>>

\* --------------------------------------------------------- inputs of the model
Seeds == {42}

\* (annual_premium, claim_amount) as ints: a claim above the premium, a claim
\* below it
Money == {<<2, 5>>, <<3, 1>>}

\* valid calls: hazard bounds [0, 1], [0, 0] and [1, 1]
GridConfigs ==
    {[num_policies |-> n, annual_premium |-> PyInt(m[1]),
      claim_amount |-> PyInt(m[2]), simulations |-> t,
      p_min |-> FromInt(h[1]), p_max |-> FromInt(h[2])] :
        n \in 1 .. MaxPolicies, m \in Money, t \in 1 .. MaxSims,
        h \in {<<0, 1>>, <<0, 0>>, <<1, 1>>}}

\* the float literal 1.0000000000000002, the double after 1.0
NextAfterOne == FAdd(FromInt(1), FMul(IntDiv(1, 2 ^ 26), IntDiv(1, 2 ^ 26)))

\* (annual_premium, claim_amount) as floats: 0.1 and 0.3, and
\* 1.0000000000000002 and 1.0
FloatMoney == {<<IntDiv(1, 10), IntDiv(3, 10)>>, <<NextAfterOne, FromInt(1)>>}

\* valid calls with a float premium and a float claim amount, on three
\* policies: 3 * annual_premium is rounded
FloatConfigs ==
    {[num_policies |-> 3, annual_premium |-> PyFloat(m[1]),
      claim_amount |-> PyFloat(m[2]), simulations |-> t,
      p_min |-> FromInt(h[1]), p_max |-> FromInt(h[2])] :
        m \in FloatMoney, t \in 1 .. 2, h \in {<<0, 1>>, <<1, 1>>}}

\* valid calls of three trials with premium 9, claim amount 4 and both
\* hazard bounds 1: the sum of the three equal yields is rounded
MeanConfigs ==
    {[num_policies |-> n, annual_premium |-> PyInt(9),
      claim_amount |-> PyInt(4), simulations |-> 3,
      p_min |-> FromInt(1), p_max |-> FromInt(1)] : n \in 1 .. MaxPolicies}

\* the two end-to-end scenarios: 100 policies, premium 1000, claim 50000,
\* bounds [0, 0] and [1, 1]
ScenarioConfigs ==
    {[num_policies |-> 100, annual_premium |-> PyInt(1000),
      claim_amount |-> PyInt(50000), simulations |-> n, p_min |-> FromInt(b), p_max |-> FromInt(b)] :
        n \in 1 .. MaxSims, b \in {0, 1}}

\* the call of the main block, with its premium, claim amount and hazard
\* bounds but fewer policies and fewer simulations
DefaultMoneyConfigs ==
    {[DefaultConfig EXCEPT !.num_policies = n, !.simulations = t] :
        n \in 1 .. MaxPolicies, t \in 1 .. MaxSims}

\* calls with no policy, no simulation, a negative premium, or the lower
\* hazard bound above the upper one
InvalidConfigs ==
    {[num_policies |-> n, annual_premium |-> PyInt(m),
      claim_amount |-> PyInt(1), simulations |-> t, p_min |-> FromInt(h[1]), p_max |-> FromInt(h[2])] :
        n \in 0 .. 1, m \in {-1, 2}, t \in 0 .. 1, h \in {<<0, 1>>, <<1, 0>>}}
    \ {[num_policies |-> 1, annual_premium |-> PyInt(2),
        claim_amount |-> PyInt(1), simulations |-> 1, p_min |-> FromInt(0), p_max |-> FromInt(1)]}

\* the calls made
Configs ==
    GridConfigs \cup FloatConfigs \cup MeanConfigs \cup ScenarioConfigs \cup DefaultMoneyConfigs
    \cup InvalidConfigs

\* the configuration of the reseeded runs: one policy, two trials
SeededConfigs ==
    {[num_policies |-> 1, annual_premium |-> PyInt(2),
      claim_amount |-> PyInt(5), simulations |-> 2, p_min |-> FromInt(0), p_max |-> FromInt(1)]}

\* the lists handed to summarize_and_plot_yields on its own: every list of
\* up to MaxLen of three values, and [10, 20, 30, 40, 50] in every order
SampleValues == {FromInt(10), FromInt(20), FromInt(40)}

ExampleValues == {FromInt(10 * k) : k \in 1 .. 5}

ExampleLists ==
    {s \in [1 .. 5 -> ExampleValues] : {s[i] : i \in 1 .. 5} = ExampleValues}

SampleLists ==
    UNION {[1 .. n -> SampleValues] : n \in 0 .. MaxLen} \cup ExampleLists

\* ------------------------------------------------------------------- Init
InitCommon ==
    /\ cfg = DefaultConfig
    /\ total_premiums = PyInt(0)
    /\ trial = 0
    /\ p = NaN
    /\ policy = 0
    /\ fires = 0
    /\ rng = [seed |-> 0, pos |-> 0]
    /\ tape = [s \in Seeds |-> <<>>]
    /\ error = "none"
    /\ yields_np = <<>>
    /\ mean_yield = NaN
    /\ p5 = NaN
    /\ p95 = NaN
    /\ stdout = <<>>
    /\ shown = <<>>
    /\ retval = [kind |-> "unset", mean |-> NaN, p5 |-> NaN, p95 |-> NaN]
    /\ entry = [seed |-> 0, pos |-> 0]
    /\ lastDraw = NaN
    /\ fireLog = <<>>
    /\ runs = <<>>
    /\ others = 0

\* the program before main runs
Init ==
    /\ InitCommon
    /\ pc = "main"
    /\ yields = <<>>
    /\ arg0 = <<>>

\* a caller about to pass a list of its own to summarize_and_plot_yields
InitSummarize ==
    /\ InitCommon
    /\ pc = "sum_array"
    /\ yields \in SampleLists
    /\ arg0 = yields

\* ------------------------------------------------------------ the generator
\* what the next random.random() can return: the recorded value when the
\* seeded stream is replayed, any value otherwise
NextDraws ==
    IF rng.seed # 0 /\ rng.pos < Len(tape[rng.seed])
    THEN {tape[rng.seed][rng.pos + 1]}
    ELSE UnitDraws

\* the generator after returning u
Consume(u) ==
    /\ rng' = [rng EXCEPT !.pos = @ + 1]
    /\ tape' = IF rng.seed # 0 /\ rng.pos = Len(tape[rng.seed])
               THEN [tape EXCEPT ![rng.seed] = Append(@, u)]
               ELSE tape

\* random.seed(s)
Seed ==
    /\ pc = "main"
    /\ \E s \in Seeds : rng' = [seed |-> s, pos |-> 0]
    /\ UNCHANGED <<pc, cfg, simLocals, tape, error, sumLocals, history>>

\* a random.random() call made elsewhere in the program
OtherUse ==
    /\ pc = "main"
    /\ others < MaxOtherDraws
    /\ \E u \in NextDraws : Consume(u)
    /\ others' = others + 1
    /\ UNCHANGED <<pc, cfg, simLocals, error, sumLocals, entry, lastDraw,
                   fireLog, runs>>

\* ------------------------------------------------ simulate_yield_distribution
\* the call, and the two statements before the loop
SimCall(c) ==
    /\ pc = "main"
    /\ cfg' = c
    /\ total_premiums' = TotalPremiums(c)
    /\ yields' = FreshYields(yields)
    /\ trial' = 0
    /\ entry' = rng
    /\ fireLog' = <<>>
    /\ pc' = "loop"
    /\ UNCHANGED <<p, policy, fires, rng, tape, error, sumLocals, lastDraw, runs,
                   others>>

\* the head of the outer loop and p = random.uniform(p_min, p_max)
SimLoop ==
    /\ pc = "loop"
    /\ MoreTrials(trial, cfg)
    /\ \E u \in NextDraws :
        /\ p' = Uniform(cfg.p_min, cfg.p_max, u)
        /\ Consume(u)
        /\ lastDraw' = u
    /\ policy' = 0
    /\ fires' = 0
    /\ pc' = "fires"
    /\ UNCHANGED <<cfg, total_premiums, yields, trial, error, sumLocals,
                   entry, fireLog, runs, others>>

\* one element of the generator expression summed into fires
SimPolicy ==
    /\ pc = "fires"
    /\ MorePolicies(policy, cfg)
    /\ \E u \in NextDraws :
        /\ fires' = fires + (IF IsFire(u, p) THEN 1 ELSE 0)
        /\ Consume(u)
        /\ lastDraw' = u
    /\ policy' = policy + 1
    /\ UNCHANGED <<pc, cfg, total_premiums, yields, trial, p, error, sumLocals,
                   entry, fireLog, runs, others>>

\* total_payout, net_profit, yield_percentage and the append; the division
\* raises ZeroDivisionError when total_premiums is 0
SimYield ==
    /\ pc = "fires"
    /\ ~MorePolicies(policy, cfg)
    /\ IF PyIsZero(total_premiums)
       THEN /\ pc' = "raised"
            /\ error' = "ZeroDivisionError"
            /\ UNCHANGED <<yields, trial, fireLog>>
       ELSE /\ yields' = Append(yields,
                            YieldPercentage(total_premiums, fires, cfg.claim_amount))
            /\ trial' = trial + 1
            /\ fireLog' = Append(fireLog, fires)
            /\ pc' = "loop"
            /\ UNCHANGED error
    /\ lastDraw' = NaN
    /\ UNCHANGED <<cfg, total_premiums, p, policy, fires, rng, tape, sumLocals,
                   entry, runs, others>>

\* return yields: the list goes to the caller and the frame, with the other
\* locals, is discarded
SimReturn ==
    /\ pc = "loop"
    /\ ~MoreTrials(trial, cfg)
    /\ pc' = "returned"
    /\ total_premiums' = PyInt(0)
    /\ trial' = 0
    /\ p' = NaN
    /\ policy' = 0
    /\ fires' = 0
    /\ runs' = Append(runs, [cfg |-> cfg, entry |-> entry, result |-> yields])
    /\ UNCHANGED <<cfg, yields, rng, tape, error, sumLocals, entry, lastDraw,
                   fireLog, others>>

\* the caller reseeds the generator, random.seed(s), before it calls again
Again ==
    /\ pc = "returned"
    /\ Len(runs) < MaxRuns
    /\ \E s \in Seeds : rng' = [seed |-> s, pos |-> 0]
    /\ pc' = "main"
    /\ UNCHANGED <<cfg, simLocals, tape, error, sumLocals, history>>

\* --------------------------------------------------- summarize_and_plot_yields
\* main passes the list it got to summarize_and_plot_yields
MainSummarize ==
    /\ pc = "returned"
    /\ arg0' = yields
    /\ pc' = "sum_array"
    /\ UNCHANGED <<cfg, simLocals, rng, tape, error, yields_np, mean_yield, p5,
                   p95, stdout, shown, retval, entry, lastDraw, fireLog, runs,
                   others>>

\* yields_np = np.array(yields)
SumArray ==
    /\ pc = "sum_array"
    /\ yields_np' = yields
    /\ pc' = "sum_mean"
    /\ UNCHANGED <<cfg, simLocals, rng, tape, error, mean_yield, p5, p95,
                   stdout, shown, retval, arg0, history>>

\* mean_yield = np.mean(yields_np)
SumMean ==
    /\ pc = "sum_mean"
    /\ mean_yield' = Mean(yields_np)
    /\ pc' = "sum_p5"
    /\ UNCHANGED <<cfg, simLocals, rng, tape, error, yields_np, p5, p95,
                   stdout, shown, retval, arg0, history>>

\* p5 = np.percentile(yields_np, 5); on an empty array numpy returns NaN or
\* raises IndexError, depending on its version
SumP5 ==
    /\ pc = "sum_p5"
    /\ IF Len(yields_np) = 0
       THEN \/ /\ p5' = NaN
               /\ pc' = "sum_p95"
               /\ UNCHANGED error
            \/ /\ pc' = "raised"
               /\ error' = "IndexError"
               /\ UNCHANGED p5
       ELSE /\ p5' = Percentile(yields_np, 5)
            /\ pc' = "sum_p95"
            /\ UNCHANGED error
    /\ UNCHANGED <<cfg, simLocals, rng, tape, yields_np, mean_yield, p95,
                   stdout, shown, retval, arg0, history>>

\* p95 = np.percentile(yields_np, 95); reached on an empty array only with a
\* numpy that returns NaN
SumP95 ==
    /\ pc = "sum_p95"
    /\ p95' = IF Len(yields_np) = 0 THEN NaN ELSE Percentile(yields_np, 95)
    /\ pc' = "sum_print"
    /\ UNCHANGED <<cfg, simLocals, rng, tape, error, yields_np, mean_yield, p5,
                   stdout, shown, retval, arg0, history>>

\* the three print calls
SumPrint ==
    /\ pc = "sum_print"
    /\ stdout' = stdout \o Printed(mean_yield, p5, p95)
    /\ pc' = "sum_plot"
    /\ UNCHANGED <<cfg, simLocals, rng, tape, error, yields_np, mean_yield, p5,
                   p95, shown, retval, arg0, history>>

\* the figure: histogram of yields_np in 50 bins, three vertical lines,
\* plt.show(); then the function returns
SumPlot ==
    /\ pc = "sum_plot"
    /\ shown' = Append(shown, [hist |-> yields_np, bins |-> 50,
                               vlines |-> <<mean_yield, p5, p95>>])
    /\ retval' = ReturnValue(mean_yield, p5, p95)
    /\ pc' = "done"
    /\ UNCHANGED <<cfg, simLocals, rng, tape, error, yields_np, mean_yield, p5,
                   p95, stdout, arg0, history>>

\* ------------------------------------------------------------ specifications
Simulate ==
    \/ \E c \in Configs : SimCall(c)
    \/ SimLoop
    \/ SimPolicy
    \/ SimYield
    \/ SimReturn

Summarize ==
    \/ SumArray
    \/ SumMean
    \/ SumP5
    \/ SumP95
    \/ SumPrint
    \/ SumPlot

\* the program: simulate, then summarize what it returned
Next == Simulate \/ MainSummarize \/ Summarize

Spec == Init /\ [][Next]_vars

\* summarize_and_plot_yields on any list
SpecSummarize == InitSummarize /\ [][Summarize]_vars

\* a caller that seeds the generator, lets other code draw from it, and calls
\* simulate_yield_distribution more than once, each time on a seeded generator
NextSeeded ==
    \/ Seed
    \/ OtherUse
    \/ \E c \in SeededConfigs : rng.seed # 0 /\ SimCall(c)
    \/ SimLoop
    \/ SimPolicy
    \/ SimYield
    \/ SimReturn
    \/ Again

SpecSeeded == Init /\ [][NextSeeded]_vars

\* ------------------------------------------------ vocabulary of the claims
\* real numbers, for the formulas the claims state over the reals: the
\* fraction (-1)^s * num / den of two natural numbers of any size, den > 0
EInt(n) == <<IF n < 0 THEN 1 ELSE 0, BFromInt(IF n < 0 THEN -n ELSE n), <<1>>>>

\* the real number a finite double is
EOf(x) ==
    IF x[3] >= 0 THEN <<x[1], BShl(x[2], x[3]), <<1>>>>
    ELSE <<x[1], x[2], BShl(<<1>>, -x[3])>>

\* 2^(-k)
EPow2Neg(k) == <<0, <<1>>, BShl(<<1>>, k)>>

ENeg(a) == <<1 - a[1], a[2], a[3]>>

EAbs(a) == <<0, a[2], a[3]>>

ESign(a) == IF a[2] = <<>> THEN 0 ELSE IF a[1] = 1 THEN -1 ELSE 1

EAdd(a, b) ==
    LET ea == BMul(a[2], b[3])
        eb == BMul(b[2], a[3])
        ed == BMul(a[3], b[3])
    IN  IF a[1] = b[1] THEN <<a[1], BAdd(ea, eb), ed>>
        ELSE IF BCmp(ea, eb) >= 0 THEN <<a[1], BSub(ea, eb), ed>>
        ELSE <<b[1], BSub(eb, ea), ed>>

ESub(a, b) == EAdd(a, ENeg(b))

EMul(a, b) == <<(a[1] + b[1]) % 2, BMul(a[2], b[2]), BMul(a[3], b[3])>>

\* a / b for b # 0
EDiv(a, b) == <<(a[1] + b[1]) % 2, BMul(a[2], b[3]), BMul(a[3], b[2])>>

\* -1, 0 or 1 as a < b, a = b, a > b
ECmp(a, b) ==
    IF ESign(a) # ESign(b) THEN (IF ESign(a) < ESign(b) THEN -1 ELSE 1)
    ELSE IF ESign(a) = 0 THEN 0
    ELSE IF ESign(a) = 1 THEN BCmp(BMul(a[2], b[3]), BMul(b[2], a[3]))
    ELSE BCmp(BMul(b[2], a[3]), BMul(a[2], b[3]))

ELe(a, b) == ECmp(a, b) <= 0

EEq(a, b) == ECmp(a, b) = 0

EMax(a, b) == IF ELe(a, b) THEN b ELSE a

\* the double x is the real number a
IsReal(x, a) == ~IsNaN(x) /\ EEq(EOf(x), a)

\* the double x is within count * 2^(-bits) * |scale| of the real number a
Near(x, a, count, bits, scale) ==
    /\ ~IsNaN(x)
    /\ ELe(EAbs(ESub(EOf(x), a)),
           EMul(EMul(EInt(count), EPow2Neg(bits)), EAbs(scale)))

\* the constraints the specification puts on a SimulationConfig
ValidConfig(c) ==
    /\ c.num_policies >= 1
    /\ c.simulations >= 1
    /\ PyPositive(c.annual_premium)
    /\ PyPositive(c.claim_amount)
    /\ FLe(FromInt(0), c.p_min)
    /\ FLe(c.p_min, c.p_max)
    /\ FLe(c.p_max, FromInt(1))

\* simulate_yield_distribution has been called and has not ended
SimRunning == pc \in {"loop", "fires"}

\* simulate_yield_distribution has been called and has ended
SimEnded == pc \notin {"main", "loop", "fires"}

\* summarize_and_plot_yields has gone past its percentile statements
StatsComputed == pc \in {"sum_print", "sum_plot", "done"}

\* the real number a Python number is
ENum(a) == IF a.isInt THEN EInt(a.n) ELSE EOf(a.f)

\* population x charge, a real number
TotalCharge(c) == EMul(EInt(c.num_policies), ENum(c.annual_premium))

\* k x loss, a real number
TotalLoss(c, k) == EMul(EInt(k), ENum(c.claim_amount))

\* (population x charge - k x loss) / (population x charge) x 100, a real number
ClaimedYield(c, k) ==
    EMul(EDiv(ESub(TotalCharge(c), TotalLoss(c, k)), TotalCharge(c)), EInt(100))

\* 100 - (population x loss) / (population x charge) x 100, a real number
WorstYield(c) ==
    ESub(EInt(100),
         EMul(EDiv(TotalLoss(c, c.num_policies), TotalCharge(c)), EInt(100)))

\* 100 - loss / charge x 100, a real number
AllFiresYield(c) ==
    ESub(EInt(100),
         EMul(EDiv(ENum(c.claim_amount), ENum(c.annual_premium)), EInt(100)))

\* the larger of 100 and k x loss / (population x charge) x 100, a real number
YieldScale(c, k) ==
    EMax(EInt(100), EMul(EDiv(TotalLoss(c, k), TotalCharge(c)), EInt(100)))

\* charge and loss are both ints
IntMoney(c) == c.annual_premium.isInt /\ c.claim_amount.isInt

\* the yield of a trial with k fires as Python computes it: the products
\* population * charge and k * loss and their difference, exact on ints and
\* rounded on floats, the quotient rounded to a double, and its product with
\* 100 rounded to a double
TrialYield(c, k) ==
    LET charged == IF c.annual_premium.isInt
                   THEN PyInt(c.num_policies * c.annual_premium.n)
                   ELSE PyFloat(FMul(FromInt(c.num_policies), c.annual_premium.f))
        lost == IF c.claim_amount.isInt
                THEN PyInt(k * c.claim_amount.n)
                ELSE PyFloat(FMul(FromInt(k), c.claim_amount.f))
        net == IF IntMoney(c) THEN PyInt(charged.n - lost.n)
               ELSE PyFloat(FSub(charged.f, lost.f))
        quotient == IF IntMoney(c) THEN FDiv(FromInt(net.n), FromInt(charged.n))
                    ELSE FDiv(net.f, charged.f)
    IN  FMul(quotient, FromInt(100))

\* the k-th smallest value of x, k counted from 0, by counting
OrderStat(x, k) ==
    CHOOSE v \in {x[i] : i \in 1 .. Len(x)} :
        /\ Cardinality({i \in 1 .. Len(x) : FLt(x[i], v)}) <= k
        /\ Cardinality({i \in 1 .. Len(x) : FLe(x[i], v)}) > k

\* floor(r) and ceil(r) for the rank r = q/100 x (n-1)
RankBelow(x, q) == (q * (Len(x) - 1)) \div 100

RankAbove(x, q) ==
    IF (q * (Len(x) - 1)) % 100 = 0 THEN RankBelow(x, q) ELSE RankBelow(x, q) + 1

\* s[floor(r)] + (r - floor(r)) x (s[ceil(r)] - s[floor(r)]), a real number
ClaimedPercentile(x, q) ==
    LET below == EOf(OrderStat(x, RankBelow(x, q)))
        over == EOf(OrderStat(x, RankAbove(x, q)))
        frac == EDiv(EInt((q * (Len(x) - 1)) % 100), EInt(100))
    IN  EAdd(below, EMul(frac, ESub(over, below)))

\* the largest magnitude of the values of x
LargestSize(x) ==
    EOf(CHOOSE v \in {x[i] : i \in 1 .. Len(x)} :
            \A i \in 1 .. Len(x) : ELe(EAbs(EOf(x[i])), EAbs(EOf(v))))

\* x with the elements at i and j exchanged
Swap(x, i, j) == [x EXCEPT ![i] = x[j], ![j] = x[i]]

\* exchanging two neighbouring elements of the array changes no percentile
OrderIndependent ==
    \A i \in 1 .. (Len(yields_np) - 1) :
        /\ Percentile(Swap(yields_np, i, i + 1), 5) = p5
        /\ Percentile(Swap(yields_np, i, i + 1), 95) = p95

\* the three lines printed all show the value v
AllPrinted(v) ==
    /\ Len(stdout) = 3
    /\ \A k \in 1 .. 3 : stdout[k].value = Fmt2(v)

\* the configuration of the end-to-end scenarios
IsScenario(c) ==
    /\ c.num_policies = 100
    /\ c.annual_premium = PyInt(1000)
    /\ c.claim_amount = PyInt(50000)

\* -------------------------------------------------------------------- claims

\* C1: a call of simulate_yield_distribution with an invalid configuration
\* (population 0, trial count 0, negative charge, lower bound above upper
\* bound) ends with an InvalidConfiguration error and returns no distribution.
C1_InvalidConfigurationRaised ==
    (SimEnded /\ ~ValidConfig(cfg)) =>
        (pc = "raised" /\ error = "InvalidConfiguration")

\* C2: summarize_and_plot_yields on a zero-length sequence raises
\* EmptyDistribution before any statistic is computed, printed or plotted.
C2_EmptyDistributionRaised ==
    (Len(arg0) = 0) =>
        \/ pc \in {"sum_array", "sum_mean"}
        \/ (pc = "raised" /\ error = "EmptyDistribution")

\* the steps simulate_yield_distribution still has to take: one for the
\* return, and for each trial one for the draw of p, one for each policy and
\* one for the yield
Remaining ==
    IF SimRunning
    THEN (cfg.simulations - trial) * (cfg.num_policies + 2) + 1
         - (IF pc = "fires" THEN 1 + policy ELSE 0)
    ELSE 0

\* one of the four steps of the simulation can be taken, and the yield step
\* does not raise
CanStep ==
    \/ pc = "loop" /\ MoreTrials(trial, cfg) /\ NextDraws # {}
    \/ pc = "loop" /\ ~MoreTrials(trial, cfg)
    \/ pc = "fires" /\ MorePolicies(policy, cfg) /\ NextDraws # {}
    \/ pc = "fires" /\ ~MorePolicies(policy, cfg) /\ ~PyIsZero(total_premiums)

\* C3: for a valid configuration the simulation never raises, can always take
\* its next step, and every step brings it one step nearer to its return, so
\* it terminates; it returns a list of exactly `simulations` yields, the i-th
\* being the yield of the i-th trial: the float computed from that trial's
\* fire count.
C3_LengthIsTrialCount ==
    /\ [](    (ValidConfig(cfg) /\ pc # "main") =>
                /\ error = "none"
                /\ SimRunning =>
                    /\ trial <= cfg.simulations
                    /\ Len(yields) = trial
                    /\ Remaining > 0
                    /\ CanStep
                /\ SimEnded => Len(yields) = cfg.simulations
                /\ Len(fireLog) = Len(yields)
                /\ \A i \in 1 .. Len(yields) :
                    yields[i] = TrialYield(cfg, fireLog[i]))
    /\ [][(ValidConfig(cfg) /\ SimRunning) => Remaining' = Remaining - 1]_vars

C3_Witness ==
    /\ pc = "returned"
    /\ ValidConfig(cfg)
    /\ cfg.simulations = MaxSims
    /\ Len(yields) = MaxSims
    /\ yields[1] # yields[MaxSims]

\* C4, as claimed: for a valid configuration the fire count of a trial is
\* between 0 and the population size, and every yield is between
\* 100 - (population x loss) / (population x charge) x 100 and 100 and equals
\* (population x charge - k x loss) / (population x charge) x 100.
C4_YieldWithinBounds ==
    (ValidConfig(cfg) /\ pc # "main") =>
        /\ pc = "fires" => (0 <= fires /\ fires <= cfg.num_policies)
        /\ \A i \in 1 .. Len(yields) :
            /\ 0 <= fireLog[i] /\ fireLog[i] <= cfg.num_policies
            /\ IsReal(yields[i], ClaimedYield(cfg, fireLog[i]))
            /\ ELe(WorstYield(cfg), EOf(yields[i]))
            /\ ELe(EOf(yields[i]), EInt(100))

\* C4, amended: for a valid configuration the fire count k of a trial is
\* between 0 and the population size; the yield is the float Python computes
\* from k; it is at most 100 and within 2^-50 x max(100, k x loss /
\* (population x charge) x 100) of the real value
\* (population x charge - k x loss) / (population x charge) x 100, and within
\* 2^-51 of that value relative to it when charge and loss are ints; the real
\* value lies between the claimed bounds.
C4_YieldWithinRounding ==
    (ValidConfig(cfg) /\ pc # "main") =>
        /\ pc = "fires" => (0 <= fires /\ fires <= cfg.num_policies)
        /\ \A i \in 1 .. Len(yields) :
            LET claimed == ClaimedYield(cfg, fireLog[i])
            IN  /\ 0 <= fireLog[i] /\ fireLog[i] <= cfg.num_policies
                /\ yields[i] = TrialYield(cfg, fireLog[i])
                /\ FLe(yields[i], FromInt(100))
                /\ Near(yields[i], claimed, 1, 50, YieldScale(cfg, fireLog[i]))
                /\ IntMoney(cfg) => Near(yields[i], claimed, 1, 51, claimed)
                /\ ELe(WorstYield(cfg), claimed)
                /\ ELe(claimed, EInt(100))

\* a run on three policies with the float premium 1.0000000000000002 and the
\* float claim amount 1.0: a trial with no fire yields 100, a trial with three
\* fires yields a float that is not the real value and not within 2^-51 of it
C4_Witness ==
    /\ pc = "returned"
    /\ ValidConfig(cfg)
    /\ cfg.num_policies = 3
    /\ cfg.annual_premium = PyFloat(NextAfterOne)
    /\ cfg.claim_amount = PyFloat(FromInt(1))
    /\ \E i, j \in 1 .. Len(yields) :
        /\ fireLog[i] = cfg.num_policies
        /\ ~Near(yields[i], ClaimedYield(cfg, fireLog[i]), 1, 51,
                 ClaimedYield(cfg, fireLog[i]))
        /\ fireLog[j] = 0
        /\ yields[j] = FromInt(100)

\* C5: two calls with the same configuration that find the seeded generator
\* in the same state return the same list, whatever else drew from the
\* generator before or between them.
C5_Reproducible ==
    \A i, j \in 1 .. Len(runs) :
        (/\ runs[i].cfg = runs[j].cfg
         /\ runs[i].entry = runs[j].entry
         /\ runs[i].entry.seed # 0) => runs[i].result = runs[j].result

C5_Witness ==
    /\ Len(runs) >= 2
    /\ others > 0
    /\ runs[1].cfg = runs[2].cfg
    /\ runs[1].entry = runs[2].entry
    /\ runs[1].entry.seed # 0
    /\ Len(runs[2].result) = 2
    /\ runs[2].result[1] # runs[2].result[2]
    /\ runs[1].result = runs[2].result

\* C6, as claimed: for a non-empty list the two percentiles equal the
\* linear-interpolation order statistics of rank q/100 x (n-1), q = 5 and
\* q = 95, and exchanging two neighbouring elements of the list changes
\* neither (every reordering is a sequence of such exchanges).
C6_LinearPercentile ==
    (Len(arg0) >= 1 /\ StatsComputed) =>
        /\ IsReal(p5, ClaimedPercentile(arg0, 5))
        /\ IsReal(p95, ClaimedPercentile(arg0, 95))
        /\ OrderIndependent

\* C6, amended: for a non-empty list of n values each percentile is within
\* n x 2^-50 x (the largest magnitude in the list) of the linear-interpolation
\* order statistic of rank q/100 x (n-1); for [10, 20, 30, 40, 50] in any
\* order the percentiles are exactly 12 and 48; exchanging two neighbouring
\* elements of the list changes neither.
C6_LinearWithinRounding ==
    (Len(arg0) >= 1 /\ StatsComputed) =>
        /\ Near(p5, ClaimedPercentile(arg0, 5), Len(arg0), 50, LargestSize(arg0))
        /\ Near(p95, ClaimedPercentile(arg0, 95), Len(arg0), 50, LargestSize(arg0))
        /\ arg0 \in ExampleLists => (p5 = FromInt(12) /\ p95 = FromInt(48))
        /\ OrderIndependent

C6_Witness ==
    /\ pc = "done"
    /\ arg0 = <<FromInt(30), FromInt(10), FromInt(50), FromInt(20), FromInt(40)>>
    /\ p5 = FromInt(12)
    /\ p95 = FromInt(48)

\* C7: with both hazard bounds 0 and a valid configuration no policy is ever
\* counted as a fire, every yield is 100, and the mean and both percentiles
\* computed and printed are 100.
C7_NoFiresAtZero ==
    (/\ ValidConfig(cfg)
     /\ pc # "main"
     /\ cfg.p_min = FromInt(0)
     /\ cfg.p_max = FromInt(0)) =>
        /\ pc = "fires" => fires = 0
        /\ \A i \in 1 .. Len(yields) : yields[i] = FromInt(100)
        /\ StatsComputed =>
            (/\ mean_yield = FromInt(100)
             /\ p5 = FromInt(100)
             /\ p95 = FromInt(100))
        /\ pc \in {"sum_plot", "done"} => AllPrinted(FromInt(100))

C7_Witness ==
    /\ pc = "done"
    /\ IsScenario(cfg)
    /\ cfg.p_max = FromInt(0)
    /\ Len(yields) = MaxSims
    /\ mean_yield = FromInt(100)
    /\ AllPrinted(FromInt(100))
    /\ stdout[1].value = [nan |-> FALSE, neg |-> FALSE, hundredths |-> 10000]

\* C8, as claimed: with both hazard bounds 1 and a valid configuration every
\* policy of every trial is counted as a fire, every yield is
\* 100 - loss / charge x 100 (-4900 for 100 policies, premium 1000, claim
\* 50000), and the mean and both percentiles computed are that value.
C8_AllFiresAtOne ==
    (/\ ValidConfig(cfg)
     /\ pc # "main"
     /\ cfg.p_min = FromInt(1)
     /\ cfg.p_max = FromInt(1)) =>
        /\ pc = "fires" => fires = policy
        /\ \A i \in 1 .. Len(yields) :
            /\ fireLog[i] = cfg.num_policies
            /\ IsReal(yields[i], AllFiresYield(cfg))
        /\ IsScenario(cfg) => EEq(AllFiresYield(cfg), EInt(-4900))
        /\ StatsComputed =>
            /\ IsReal(mean_yield, AllFiresYield(cfg))
            /\ IsReal(p5, AllFiresYield(cfg))
            /\ IsReal(p95, AllFiresYield(cfg))

\* C8, amended: with both hazard bounds 1 and a valid configuration every
\* policy of every trial is counted as a fire and every yield is the same
\* float, the one Python computes from k = population size; it is within
\* 2^-50 x max(100, loss / charge x 100) of 100 - loss / charge x 100, and
\* within 2^-51 of that value relative to it when charge and loss are ints;
\* both percentiles are that float and the mean is within n x 2^-52 of it
\* relative to it, n the number of trials; for 100 policies, premium 1000,
\* claim 50000 the yields, the mean and the percentiles are exactly -4900 and
\* are printed as -4900.00.
C8_AllFiresWithinRounding ==
    (/\ ValidConfig(cfg)
     /\ pc # "main"
     /\ cfg.p_min = FromInt(1)
     /\ cfg.p_max = FromInt(1)) =>
        /\ pc = "fires" => fires = policy
        /\ \A i \in 1 .. Len(yields) :
            /\ fireLog[i] = cfg.num_policies
            /\ yields[i] = TrialYield(cfg, cfg.num_policies)
            /\ Near(yields[i], AllFiresYield(cfg), 1, 50,
                    YieldScale(cfg, cfg.num_policies))
            /\ IntMoney(cfg) =>
                Near(yields[i], AllFiresYield(cfg), 1, 51, AllFiresYield(cfg))
            /\ IsScenario(cfg) => yields[i] = FromInt(-4900)
        /\ StatsComputed =>
            /\ p5 = TrialYield(cfg, cfg.num_policies)
            /\ p95 = TrialYield(cfg, cfg.num_policies)
            /\ Near(mean_yield, EOf(p5), Len(yields), 52, EOf(p5))
            /\ IsScenario(cfg) => mean_yield = FromInt(-4900)
        /\ (IsScenario(cfg) /\ pc \in {"sum_plot", "done"}) =>
            AllPrinted(FromInt(-4900))

\* a run of three trials with premium 9 and claim amount 4: the three yields
\* are the same float, which is not 100 - 4 / 9 x 100, both percentiles are
\* that float and the mean is another float
C8_Witness ==
    /\ pc = "done"
    /\ cfg.annual_premium = PyInt(9)
    /\ cfg.claim_amount = PyInt(4)
    /\ cfg.p_min = FromInt(1)
    /\ cfg.p_max = FromInt(1)
    /\ Len(yields) = 3
    /\ \A i \in 1 .. 3 : fireLog[i] = cfg.num_policies
    /\ ~IsReal(yields[1], AllFiresYield(cfg))
    /\ yields[2] = yields[1]
    /\ yields[3] = yields[1]
    /\ p5 = yields[1]
    /\ p95 = yields[1]
    /\ mean_yield # yields[1]

\* C9, as claimed: summarize_and_plot_yields leaves its input unchanged,
\* prints and displays nothing, and returns the mean and the two percentiles.
C9_NoSideEffects ==
    /\ yields = arg0
    /\ pc = "done" =>
        /\ stdout = <<>>
        /\ shown = <<>>
        /\ retval = ReturnStats(mean_yield, p5, p95)

\* the draws consumed since simulate_yield_distribution was entered
DrawsConsumed == rng.pos - entry.pos

\* what C10 says of a state, but for the range of p
C10_Counts ==
    /\ SimRunning =>
        DrawsConsumed = trial * (1 + cfg.num_policies)
                        + (IF pc = "fires" THEN 1 + policy ELSE 0)
    /\ pc = "fires" => policy <= cfg.num_policies
    /\ pc = "returned" =>
        DrawsConsumed = cfg.simulations * (1 + cfg.num_policies)

\* what C10 says of a step
C10_Step ==
    /\ (pc = "loop" /\ pc' = "fires") =>
        (rng'.pos = rng.pos + 1 /\ policy' = 0 /\ fires' = 0)
    /\ (pc = "fires" /\ pc' = "fires") =>
        /\ p' = p
        /\ rng'.pos = rng.pos + 1
        /\ policy' = policy + 1
        /\ FLe(FromInt(0), lastDraw') /\ FLt(lastDraw', FromInt(1))
        /\ fires' = fires + (IF FLt(lastDraw', p) THEN 1 ELSE 0)
    /\ (pc = "fires" /\ pc' = "loop") =>
        /\ rng' = rng
        /\ policy = cfg.num_policies
        /\ yields' = Append(yields, TrialYield(cfg, fires))

\* C10, as claimed: in every trial p is drawn once from [lower, upper), then
\* exactly `population` draws are made, so a run consumes
\* trials x (1 + population) draws.
C10_HalfOpenHazard ==
    (ValidConfig(cfg) /\ pc # "main") =>
        /\ C10_Counts
        /\ pc = "fires" => (FLe(cfg.p_min, p) /\ FLt(p, cfg.p_max))

\* C10, amended: in every trial p is drawn once, with lower <= p <= upper
\* (p = lower when the bounds are equal), then exactly `population` draws
\* from [0, 1) are made, each counted as a fire exactly when it is strictly
\* below that same p; a run consumes trials x (1 + population) draws and a
\* trial's yield is computed from that trial's count alone.
C10_DrawOrder ==
    /\ [](    (ValidConfig(cfg) /\ pc # "main") =>
                /\ C10_Counts
                /\ pc = "fires" => (FLe(cfg.p_min, p) /\ FLe(p, cfg.p_max))
                /\ (pc = "fires" /\ cfg.p_min = cfg.p_max) => p = cfg.p_min)
    /\ [][(ValidConfig(cfg) /\ pc # "main") => C10_Step]_vars

C10_Witness ==
    /\ pc = "fires"
    /\ ValidConfig(cfg)
    /\ trial = 1
    /\ policy = cfg.num_policies
    /\ policy >= 2
    /\ lastDraw = p
    /\ FLt(FromInt(0), p)
    /\ fires = 1
    /\ DrawsConsumed = 2 * (1 + cfg.num_policies)

====
